---- MODULE Spec2Model ----
(***************************************************************************)
(* Sen1Floods11 dataset adapters: the manifest readers, the file resolvers *)
(* (FloodDatasetGenerator._load_image, Sen1floods11Dataset.load_input) and *)
(* the two example generators, over a local cache directory and a remote   *)
(* DVC store.                                                              *)
(***************************************************************************)
EXTENDS Integers, Sequences, FiniteSets, Bags, TLC

\* ------------------------------------------------------------------ bounds
\* Number of distinct image contents the remote store may hold for a path.
MaxVer == 2
\* Longest manifest, in lines.
MaxRows == 2

\* --------------------------------------------------------------- constants
S1 == "v1.1/data/flood_events/HandLabeled/S1Hand/"
LABELS == "v1.1/data/flood_events/HandLabeled/LabelHand/"
Dirs == {S1, LABELS}

\* File names are the fields of a manifest line: sequences of characters.
NameA == <<"a">>
NameB == <<"b">>
Names == {NameA, NameB}
\* The directory and names the direct resolver calls are made with.
ResDirs == {S1}
ResNames == {NameA}

\* local_path = context / image_dir / image_name
LocalPath(dir, name) == <<dir, name>>
\* dvc_path = "/" + image_dir + image_name
DvcPath(dir, name) == <<dir, name>>
Paths == Dirs \X Names

\* ------------------------------------------------------------ file contents
\* Bytes of a GeoTIFF holding image img: as stored in the remote ("origin")
\* or as rewritten by rasterio from a decoded array and its profile.
Tif(by, img) == [fmt |-> "tif", by |-> by, img |-> img]
\* Bytes rasterio cannot open.
Junk == [fmt |-> "junk", by |-> "origin", img |-> 0]
\* A file that has been created and is still being written.
Partial == [fmt |-> "partial", by |-> "writer", img |-> 0]
\* No file at the path (local cache) / no object at the path (remote).
Absent == [fmt |-> "absent", by |-> "nobody", img |-> 0]

Images == 1..MaxVer
RemoteVals == {Absent, Junk} \cup {Tif("origin", v) : v \in Images}

\* rasterio.open(...).read(): the decoded array, or a failure to open.
Decode(bytes) ==
    IF bytes.fmt = "tif" THEN [ok |-> TRUE, img |-> bytes.img]
    ELSE [ok |-> FALSE, img |-> 0]

\* rasterio.open(local_path, "w", **profile).write(image)
Encode(img) == Tif("rasterio", img)

\* Path.is_file() / os.path.isfile()
IsFile(c, p) == c[p] # Absent

\* ---------------------------------------------------------------- resolvers
\* The result of one resolution: the filesystem after it, the remote paths
\* read_bytes was called with, how it ended, and the array returned.
Res(c, d, calls, outcome, img) ==
    [cache |-> c, dirs |-> d, calls |-> calls, outcome |-> outcome, image |-> img]

\* _load_image with the stream branch tested before the local file.
LoadImage_StreamFirst(c, d, r, net, dir, name, stream, stream_cache) ==
    LET lp == LocalPath(dir, name)
        dp == DvcPath(dir, name)
    IN  IF stream
        THEN IF ~net \/ r[dp] = Absent
             THEN Res(c, d, <<dp>>, "RemoteFetchError", 0)
             ELSE LET a == Decode(r[dp])
                  IN  IF ~a.ok THEN Res(c, d, <<dp>>, "DecodeError", 0)
                      ELSE IF stream_cache
                      THEN Res([c EXCEPT ![lp] = r[dp]], d \cup {dir},
                               <<dp>>, "ok", a.img)
                      ELSE Res(c, d, <<dp>>, "ok", a.img)
        ELSE IF IsFile(c, lp)
        THEN LET a == Decode(c[lp])
             IN  IF a.ok THEN Res(c, d, <<>>, "ok", a.img)
                 ELSE Res(c, d, <<>>, "DecodeError", 0)
        ELSE Res(c, d, <<>>, "NotAccessible", 0)

\* _load_image that never writes what it fetched.
LoadImage_NoSave(c, d, r, net, dir, name, stream, stream_cache) ==
    LET lp == LocalPath(dir, name)
        dp == DvcPath(dir, name)
    IN  IF IsFile(c, lp)
        THEN LET a == Decode(c[lp])
             IN  IF a.ok THEN Res(c, d, <<>>, "ok", a.img)
                 ELSE Res(c, d, <<>>, "DecodeError", 0)
        ELSE IF stream
        THEN IF ~net \/ r[dp] = Absent
             THEN Res(c, d, <<dp>>, "RemoteFetchError", 0)
             ELSE LET a == Decode(r[dp])
                  IN  IF ~a.ok THEN Res(c, d, <<dp>>, "DecodeError", 0)
                      ELSE Res(c, d, <<dp>>, "ok", a.img)
        ELSE Res(c, d, <<>>, "NotAccessible", 0)

\* _load_image that creates the parent directory before looking for the file.
LoadImage_MkdirFirst(c, d, r, net, dir, name, stream, stream_cache) ==
    LET lp == LocalPath(dir, name)
        dp == DvcPath(dir, name)
        d2 == d \cup {dir}
    IN  IF IsFile(c, lp)
        THEN LET a == Decode(c[lp])
             IN  IF a.ok THEN Res(c, d2, <<>>, "ok", a.img)
                 ELSE Res(c, d2, <<>>, "DecodeError", 0)
        ELSE IF stream
        THEN IF ~net \/ r[dp] = Absent
             THEN Res(c, d2, <<dp>>, "RemoteFetchError", 0)
             ELSE LET a == Decode(r[dp])
                  IN  IF ~a.ok THEN Res(c, d2, <<dp>>, "DecodeError", 0)
                      ELSE IF stream_cache
                      THEN Res([c EXCEPT ![lp] = r[dp]], d2, <<dp>>, "ok", a.img)
                      ELSE Res(c, d2, <<dp>>, "ok", a.img)
        ELSE Res(c, d2, <<>>, "NotAccessible", 0)

\* FloodDatasetGenerator._load_image, with the remote store r and net telling
\* whether the store can be reached.
LoadImage(c, d, r, net, dir, name, stream, stream_cache) ==
    LET lp == LocalPath(dir, name)
        dp == DvcPath(dir, name)
    IN  IF IsFile(c, lp)
        THEN LET a == Decode(c[lp])
             IN  IF a.ok THEN Res(c, d, <<>>, "ok", a.img)
                 ELSE Res(c, d, <<>>, "DecodeError", 0)
        ELSE IF stream
        THEN IF ~net \/ r[dp] = Absent
             THEN Res(c, d, <<dp>>, "RemoteFetchError", 0)
             ELSE LET a == Decode(r[dp])
                  IN  IF ~a.ok THEN Res(c, d, <<dp>>, "DecodeError", 0)
                      ELSE IF stream_cache
                      THEN Res([c EXCEPT ![lp] = r[dp]], d \cup {dir},
                               <<dp>>, "ok", a.img)
                      ELSE Res(c, d, <<dp>>, "ok", a.img)
        ELSE Res(c, d, <<>>, "NotAccessible", 0)

\* load_input with os.makedirs hoisted above the no_cache test.
LoadInput_MakedirsFirst(c, d, r, net, dir, name, no_cache) ==
    LET lp == LocalPath(dir, name)
        dp == DvcPath(dir, name)
        d2 == d \cup {dir}
    IN  IF no_cache
        THEN IF ~net \/ r[dp] = Absent
             THEN Res(c, d2, <<dp>>, "RemoteFetchError", 0)
             ELSE LET a == Decode(r[dp])
                  IN  IF a.ok THEN Res(c, d2, <<dp>>, "ok", a.img)
                      ELSE Res(c, d2, <<dp>>, "DecodeError", 0)
        ELSE IF ~IsFile(c, lp) /\ ~no_cache
        THEN IF ~net \/ r[dp] = Absent
             THEN Res(c, d2, <<dp>>, "RemoteFetchError", 0)
             ELSE LET a == Decode(r[dp])
                  IN  IF ~a.ok THEN Res(c, d2, <<dp>>, "DecodeError", 0)
                      ELSE Res([c EXCEPT ![lp] = Encode(a.img)], d2,
                               <<dp>>, "ok", a.img)
        ELSE LET a == Decode(c[lp])
             IN  IF a.ok THEN Res(c, d2, <<>>, "ok", a.img)
                 ELSE Res(c, d2, <<>>, "DecodeError", 0)

\* load_input whose second branch tests only "not no_cache": it fetches and
\* rewrites the file whether or not it is in the cache.
LoadInput_NoIsFileTest(c, d, r, net, dir, name, no_cache) ==
    LET lp == LocalPath(dir, name)
        dp == DvcPath(dir, name)
        d2 == d \cup {dir}
    IN  IF no_cache
        THEN IF ~net \/ r[dp] = Absent
             THEN Res(c, d, <<dp>>, "RemoteFetchError", 0)
             ELSE LET a == Decode(r[dp])
                  IN  IF a.ok THEN Res(c, d, <<dp>>, "ok", a.img)
                      ELSE Res(c, d, <<dp>>, "DecodeError", 0)
        ELSE IF ~net \/ r[dp] = Absent
             THEN Res(c, d2, <<dp>>, "RemoteFetchError", 0)
             ELSE LET a == Decode(r[dp])
                  IN  IF ~a.ok THEN Res(c, d2, <<dp>>, "DecodeError", 0)
                      ELSE Res([c EXCEPT ![lp] = Encode(a.img)], d2,
                               <<dp>>, "ok", a.img)

\* Sen1floods11Dataset.load_input
LoadInput(c, d, r, net, dir, name, no_cache) ==
    LET lp == LocalPath(dir, name)
        dp == DvcPath(dir, name)
    IN  IF no_cache
        THEN IF ~net \/ r[dp] = Absent
             THEN Res(c, d, <<dp>>, "RemoteFetchError", 0)
             ELSE LET a == Decode(r[dp])
                  IN  IF a.ok THEN Res(c, d, <<dp>>, "ok", a.img)
                      ELSE Res(c, d, <<dp>>, "DecodeError", 0)
        ELSE IF ~IsFile(c, lp) /\ ~no_cache
        THEN LET d2 == d \cup {dir}
             IN  IF ~net \/ r[dp] = Absent
                 THEN Res(c, d2, <<dp>>, "RemoteFetchError", 0)
                 ELSE LET a == Decode(r[dp])
                      IN  IF ~a.ok THEN Res(c, d2, <<dp>>, "DecodeError", 0)
                          ELSE Res([c EXCEPT ![lp] = Encode(a.img)], d2,
                                   <<dp>>, "ok", a.img)
        ELSE LET a == Decode(c[lp])
             IN  IF a.ok THEN Res(c, d, <<>>, "ok", a.img)
                 ELSE Res(c, d, <<>>, "DecodeError", 0)

\* ---------------------------------------------------------------- manifests
\* A line of the file as Python reads it: characters, then the line end.
Line(chars) == chars \o <<"\n">>
LineAB == Line(<<"a", ",", "b">>)
LineBA == Line(<<"b", ",", "a">>)
LineABA == Line(<<"a", ",", "b", ",", "a">>)
LineA == Line(<<"a">>)
LineBlank == Line(<<>>)
ManifestLines == {LineAB, LineBA, LineABA, LineA, LineBlank}

RECURSIVE SplitFrom(_, _, _)
SplitFrom(chars, i, cur) ==
    IF i > Len(chars) THEN <<cur>>
    ELSE IF chars[i] = "," THEN <<cur>> \o SplitFrom(chars, i + 1, <<>>)
    ELSE SplitFrom(chars, i + 1, Append(cur, chars[i]))

\* str.split(",")
Split(chars) == SplitFrom(chars, 1, <<>>)

Whitespace == {" ", "\n"}

RECURSIVE LStrip(_)
LStrip(chars) ==
    IF chars # <<>> /\ chars[1] \in Whitespace THEN LStrip(Tail(chars)) ELSE chars

RECURSIVE RStrip(_)
RStrip(chars) ==
    IF chars # <<>> /\ chars[Len(chars)] \in Whitespace
    THEN RStrip(SubSeq(chars, 1, Len(chars) - 1))
    ELSE chars

\* str.strip()
Strip(chars) == LStrip(RStrip(chars))

\* One row of csv.reader(f, delimiter=","): the line without its line end,
\* split at the commas; an empty line gives the empty row.
CsvRow(line) ==
    LET body == IF line # <<>> /\ line[Len(line)] = "\n"
                THEN SubSeq(line, 1, Len(line) - 1) ELSE line
    IN  IF body = <<>> THEN <<>> ELSE Split(body)

\* [*csv_reader]
CsvReader(file) == [i \in 1..Len(file) |-> CsvRow(file[i])]

\* A row that did not split into exactly two fields.
Malformed(fields) == Len(fields) # 2

\* FloodDatasetGenerator.__len__ with a counter that leaves the first row out.
ManifestLen_SkipsHeader(file) == IF file = <<>> THEN 0 ELSE Len(CsvReader(file)) - 1

\* FloodDatasetGenerator.__len__
ManifestLen(file) == Len(CsvReader(file))

RECURSIVE Perms(_)
Perms(S) ==
    IF S = {} THEN {<<>>}
    ELSE UNION {{<<x>> \o t : t \in Perms(S \ {x})} : x \in S}

\* Sampling with replacement in place of a shuffle.
Shuffles_WithReplacement(rows) ==
    {[i \in 1..Len(rows) |-> rows[f[i]]] : f \in [1..Len(rows) -> 1..Len(rows)]}

\* random.shuffle(rows): the orders it can leave rows in.
Shuffles(rows) ==
    {[i \in 1..Len(rows) |-> rows[pi[i]]] : pi \in Perms(1..Len(rows))}

\* --------------------------------------------------------------- generators
\* One yielded example. key is the index _generate_examples yields with the
\* example (__call__ yields none: -1); processed tells whether process_image
\* and process_mask were applied (__call__ is called without a process_func).
Example(key, iref, img, mref, msk, processed) ==
    [key |-> key, image_ref |-> iref, image |-> img,
     mask_ref |-> mref, mask |-> msk, processed |-> processed]

NoGen ==
    [kind |-> "none", rows |-> <<>>, lines |-> <<>>, idx |-> 1, out |-> <<>>, status |-> "none",
     shuffle |-> FALSE, stream |-> FALSE, stream_cache |-> FALSE,
     no_cache |-> FALSE]

Stepped(g, c, d) == [gen |-> g, cache |-> c, dirs |-> d]

Raise(g, err, c, d) == Stepped([g EXCEPT !.status = err], c, d)

Yield(g, ex, c, d) ==
    Stepped([g EXCEPT !.out = Append(g.out, ex), !.idx = g.idx + 1], c, d)

\* A loop body that logs a failed resolution and goes on to the next row.
CallStep_SkipsFailed(g, c, d, r, net1, net2) ==
    IF g.idx > Len(g.rows) THEN Raise(g, "done", c, d)
    ELSE
    LET row == g.rows[g.idx]
        skip == [g EXCEPT !.idx = g.idx + 1]
    IN  IF Len(row) < 1 THEN Raise(g, "IndexError", c, d)
        ELSE
        LET r1 == LoadImage(c, d, r, net1, S1, row[1], g.stream, g.stream_cache)
        IN  IF r1.outcome # "ok" THEN Stepped(skip, r1.cache, r1.dirs)
            ELSE IF Len(row) < 2 THEN Raise(g, "IndexError", r1.cache, r1.dirs)
            ELSE
            LET r2 == LoadImage(r1.cache, r1.dirs, r, net2, LABELS, row[2],
                                g.stream, g.stream_cache)
            IN  IF r2.outcome # "ok" THEN Stepped(skip, r2.cache, r2.dirs)
                ELSE Yield(g, Example(-1, LocalPath(S1, row[1]), r1.image,
                                      LocalPath(LABELS, row[2]), r2.image, FALSE),
                           r2.cache, r2.dirs)

\* One next() on the generator made by FloodDatasetGenerator.__call__: the
\* loop body for row g.idx up to its yield, or the end of the loop.
CallStep(g, c, d, r, net1, net2) ==
    IF g.idx > Len(g.rows) THEN Raise(g, "done", c, d)
    ELSE
    LET row == g.rows[g.idx]
    IN  IF Len(row) < 1 THEN Raise(g, "IndexError", c, d)
        ELSE
        LET r1 == LoadImage(c, d, r, net1, S1, row[1], g.stream, g.stream_cache)
        IN  IF r1.outcome # "ok" THEN Raise(g, r1.outcome, r1.cache, r1.dirs)
            ELSE IF Len(row) < 2 THEN Raise(g, "IndexError", r1.cache, r1.dirs)
            ELSE
            LET r2 == LoadImage(r1.cache, r1.dirs, r, net2, LABELS, row[2],
                                g.stream, g.stream_cache)
            IN  IF r2.outcome # "ok" THEN Raise(g, r2.outcome, r2.cache, r2.dirs)
                ELSE Yield(g, Example(-1, LocalPath(S1, row[1]), r1.image,
                                      LocalPath(LABELS, row[2]), r2.image, FALSE),
                           r2.cache, r2.dirs)

\* One next() on the generator made by Sen1floods11Dataset._generate_examples.
GenerateExamplesStep(g, c, d, r, net1, net2) ==
    IF g.idx > Len(g.lines) THEN Raise(g, "done", c, d)
    ELSE
    LET fields == Split(Strip(g.lines[g.idx]))
    IN  IF Len(fields) # 2 THEN Raise(g, "ValueError", c, d)
        ELSE
        LET r1 == LoadInput(c, d, r, net1, S1, fields[1], g.no_cache)
        IN  IF r1.outcome # "ok" THEN Raise(g, r1.outcome, r1.cache, r1.dirs)
            ELSE
            LET r2 == LoadInput(r1.cache, r1.dirs, r, net2, LABELS, fields[2],
                                g.no_cache)
            IN  IF r2.outcome # "ok" THEN Raise(g, r2.outcome, r2.cache, r2.dirs)
                ELSE Yield(g, Example(g.idx - 1, LocalPath(S1, fields[1]), r1.image,
                                      LocalPath(LABELS, fields[2]), r2.image, TRUE),
                           r2.cache, r2.dirs)


\* ------------------------------------------------------------------ workers
Procs == {"w1", "w2"}

\* A worker's resolution in progress: which resolver it runs, where it is in
\* it, the bytes it fetched, and how the resolution ended.
Proc(op, pc, buf, result) == [op |-> op, pc |-> pc, buf |-> buf, result |-> result]
Idle == Proc("none", "idle", Absent, "none")
NoProcs == [w \in Procs |-> Idle]

\* A writer that writes a temporary file and renames it over the path.
OpenForWrite_TempFile(c, p) == c

\* Path.write_bytes / rasterio.open(local_path, "w"): the file is created
\* (or truncated) at the path before its content is written.
OpenForWrite(c, p) == [c EXCEPT ![p] = Partial]

\* -------------------------------------------------------------------- state
VARIABLES
    cache,      \* local cache: path -> bytes of the file there, or Absent
    dirs,       \* logical directories that exist under the context
    remote,     \* remote store: path -> bytes of the object, or Absent
    hist,       \* the latest resolutions made directly, newest last (at most 2)
    manifest,   \* the split's CSV file: a sequence of lines
    gen,        \* the generator object being iterated
    lenOut,     \* what len(generator) last returned
    procs       \* worker processes resolving over the same cache directory

vars == <<cache, dirs, remote, hist, manifest, gen, lenOut, procs>>
genVars == <<manifest, gen, lenOut>>

\* Files a user may already have under the context (e.g. pulled by hand):
\* original GeoTIFFs, not necessarily the remote's current content.
LocalVals == {Absent} \cup {Tif("origin", v) : v \in Images}

\* Directories that must exist for the files of c to exist.
DirsOf(c) == {p[1] : p \in {q \in Paths : c[q] # Absent}}

\* ---------------------------------------------- direct calls of the resolvers
ResPaths == ResDirs \X ResNames

\* What is remembered of one resolution: its arguments, the file at the
\* local path when it started, and what it did.
Record(op, dir, name, stream, stream_cache, no_cache, res) ==
    [op |-> op, dir |-> dir, name |-> name,
     stream |-> stream, stream_cache |-> stream_cache, no_cache |-> no_cache,
     pre |-> cache[LocalPath(dir, name)],
     calls |-> res.calls, outcome |-> res.outcome, image |-> res.image,
     fsSame |-> (res.cache = cache /\ res.dirs = dirs)]

Remember(rec) == IF Len(hist) < 2 THEN Append(hist, rec) ELSE <<hist[2], rec>>

Init ==
    /\ cache \in {c \in [Paths -> LocalVals] :
                    \A p \in Paths \ ResPaths : c[p] = Absent}
    /\ dirs = DirsOf(cache)
    /\ remote \in {r \in [Paths -> RemoteVals] :
                     \A p \in Paths \ ResPaths : r[p] = Absent}
    /\ hist = <<>>
    /\ manifest = <<>>
    /\ gen = NoGen
    /\ lenOut = -1
    /\ procs = NoProcs

\* generator._load_image(image_dir, image_name, stream=..., stream_cache=...)
LoadImageCall ==
    \E dir \in ResDirs, name \in ResNames, stream \in BOOLEAN,
       stream_cache \in BOOLEAN, net \in BOOLEAN :
        LET res == LoadImage(cache, dirs, remote, net, dir, name, stream, stream_cache)
        IN  /\ cache' = res.cache
            /\ dirs' = res.dirs
            /\ hist' = Remember(Record("_load_image", dir, name, stream,
                                        stream_cache, FALSE, res))
            /\ UNCHANGED <<remote, genVars, procs>>

\* builder.load_input(input_path, image_name, no_cache)
LoadInputCall ==
    \E dir \in ResDirs, name \in ResNames, no_cache \in BOOLEAN, net \in BOOLEAN :
        LET res == LoadInput(cache, dirs, remote, net, dir, name, no_cache)
        IN  /\ cache' = res.cache
            /\ dirs' = res.dirs
            /\ hist' = Remember(Record("load_input", dir, name, FALSE,
                                        FALSE, no_cache, res))
            /\ UNCHANGED <<remote, genVars, procs>>

\* The remote store is versioned by others: an object is added, replaced or
\* removed between two resolutions.
RemoteChange ==
    \E p \in ResPaths, v \in RemoteVals :
        /\ v # remote[p]
        /\ remote' = [remote EXCEPT ![p] = v]
        /\ UNCHANGED <<cache, dirs, hist, genVars, procs>>

Next == LoadImageCall \/ LoadInputCall \/ RemoteChange

Spec == Init /\ [][Next]_vars

\* ------------------------------------------------------------------ claims
\* The resolution persists what it fetches.
CachingEnabled(rec) ==
    \/ rec.op = "_load_image" /\ rec.stream /\ rec.stream_cache
    \/ rec.op = "load_input" /\ ~rec.no_cache

Recs == {hist[i] : i \in 1..Len(hist)}

TypeOK ==
    /\ cache \in [Paths -> LocalVals \cup {Encode(v) : v \in Images}]
    /\ dirs \subseteq Dirs
    /\ DirsOf(cache) \subseteq dirs
    /\ remote \in [Paths -> RemoteVals]
    /\ Len(hist) <= 2

Last == hist[Len(hist)]

\* C1 as stated: whenever the file exists at the local path when a
\* resolution starts, the resolution makes no read_bytes call, for
\* _load_image with any stream/stream_cache and load_input with any no_cache.
C1_AsStated ==
    \A rec \in Recs : rec.pre # Absent => rec.calls = <<>>

\* C1 amended: a file present at the local path is resolved without any
\* read_bytes call by _load_image (any stream/stream_cache) and by load_input
\* with no_cache = False; load_input with no_cache = True calls read_bytes
\* once whether or not the file is present.
C1_LocalPrecedence ==
    \A rec \in Recs :
        /\ (rec.pre # Absent /\ (rec.op = "_load_image" \/ ~rec.no_cache))
              => rec.calls = <<>>
        /\ (rec.op = "load_input" /\ rec.no_cache)
              => rec.calls = <<DvcPath(rec.dir, rec.name)>>

C1_Witness ==
    /\ Len(hist) = 2
    /\ hist[1].op = "_load_image" /\ hist[1].stream /\ hist[1].stream_cache
    /\ hist[1].pre # Absent /\ hist[1].calls = <<>> /\ hist[1].outcome = "ok"
    /\ hist[2].op = "load_input" /\ ~hist[2].no_cache
    /\ hist[2].pre # Absent /\ hist[2].calls = <<>> /\ hist[2].outcome = "ok"
    /\ remote[LocalPath(hist[2].dir, hist[2].name)] # Absent

\* C2: two resolutions in sequence of the same (dir, name) with caching
\* enabled, the first starting with the file absent and returning an image:
\* the first makes exactly one read_bytes call, the second makes none and
\* returns the image decoded from the file the first one stored.
C2_FetchOnce ==
    Len(hist) = 2 =>
        LET h1 == hist[1]
            h2 == hist[2]
        IN  (/\ CachingEnabled(h1) /\ CachingEnabled(h2)
             /\ h1.dir = h2.dir /\ h1.name = h2.name
             /\ h1.pre = Absent /\ h1.outcome = "ok")
            => /\ Len(h1.calls) + Len(h2.calls) = 1
               /\ h2.calls = <<>>
               /\ h2.outcome = "ok"
               /\ h2.pre # Absent
               /\ h2.image = Decode(h2.pre).img
               /\ h2.image = h1.image

C2_Witness ==
    /\ Len(hist) = 2
    /\ hist[1].op = "_load_image" /\ hist[2].op = "_load_image"
    /\ CachingEnabled(hist[1]) /\ CachingEnabled(hist[2])
    /\ hist[1].dir = hist[2].dir /\ hist[1].name = hist[2].name
    /\ hist[1].pre = Absent /\ hist[1].outcome = "ok"
    /\ Len(hist[1].calls) = 1 /\ hist[2].calls = <<>>

\* C3: _load_image with stream = False on a file absent from the cache
\* raises the not-accessible error, makes no read_bytes call, and leaves
\* the files and directories under the context as they were.
C3_MissingWithoutRemote ==
    \A rec \in Recs :
        (rec.op = "_load_image" /\ ~rec.stream /\ rec.pre = Absent)
        => /\ rec.outcome = "NotAccessible"
           /\ rec.calls = <<>>
           /\ rec.fsSame

C3_Witness ==
    /\ Len(hist) > 0
    /\ Last.op = "_load_image" /\ ~Last.stream /\ Last.stream_cache
    /\ Last.pre = Absent /\ Last.outcome = "NotAccessible"
    /\ dirs = {}
    /\ remote[LocalPath(Last.dir, Last.name)] # Absent

\* C8: with caching disabled (load_input with no_cache = True; _load_image
\* with stream = True, stream_cache = False on a file absent from the cache)
\* the resolution calls read_bytes once and leaves the files and the
\* directories under the context as they were.
C8_NoCacheWritesNothing ==
    \A rec \in Recs :
        (\/ rec.op = "load_input" /\ rec.no_cache
         \/ rec.op = "_load_image" /\ rec.stream /\ ~rec.stream_cache
              /\ rec.pre = Absent)
        => /\ rec.calls = <<DvcPath(rec.dir, rec.name)>>
           /\ rec.fsSame

C8_Witness ==
    /\ Len(hist) = 2
    /\ hist[1].op = "load_input" /\ hist[1].no_cache
    /\ hist[1].pre = Absent /\ hist[1].outcome = "ok"
    /\ hist[2].op = "_load_image" /\ hist[2].stream /\ ~hist[2].stream_cache
    /\ hist[2].pre = Absent /\ hist[2].outcome = "ok"
    /\ dirs = {}

\* C9: a cache entry appears only through a resolution with caching enabled
\* that fetched it from the remote; once present it is never removed or
\* changed by any step (resolutions of either variant with any flags, remote
\* changes); and every resolution with caching enabled of a present entry
\* makes no read_bytes call and returns the image decoded from the entry.
C9_Step ==
    \A p \in Paths :
        /\ cache[p] # Absent => cache'[p] = cache[p]
        /\ (cache[p] = Absent /\ cache'[p] # Absent)
             => LET rec == hist'[Len(hist')]
                IN  /\ CachingEnabled(rec)
                    /\ LocalPath(rec.dir, rec.name) = p
                    /\ rec.pre = Absent
                    /\ rec.calls = <<DvcPath(rec.dir, rec.name)>>
                    /\ rec.outcome = "ok"

C9_ReadsLocal ==
    \A rec \in Recs :
        (CachingEnabled(rec) /\ rec.pre # Absent)
        => /\ rec.calls = <<>>
           /\ rec.outcome = "ok"
           /\ rec.image = Decode(rec.pre).img

\* C9: entries appear only by a caching fetch, are never removed or changed,
\* and are what every caching-enabled resolution returns.
C9_Lifecycle == [][C9_Step]_vars /\ []C9_ReadsLocal

C9_Witness ==
    /\ Len(hist) = 2
    /\ hist[1].op = "load_input" /\ CachingEnabled(hist[1])
    /\ hist[1].pre = Absent /\ hist[1].outcome = "ok"
    /\ CachingEnabled(hist[2])
    /\ hist[2].dir = hist[1].dir /\ hist[2].name = hist[1].name
    /\ hist[2].image = hist[1].image
    /\ LET p == LocalPath(hist[2].dir, hist[2].name)
       IN  /\ cache[p] = Encode(hist[1].image)
           /\ remote[p].fmt = "tif" /\ remote[p].img # hist[1].image

\* ------------------------------------------------- iteration of a generator
Manifests == UNION {[1..n -> ManifestLines] : n \in 0..MaxRows}

\* The remote holds every file the manifests can refer to (a fetch can still
\* fail: the store may be out of reach); any of them may already be local.
GenFileVals == {Absent, Tif("origin", 1)}

GenInit ==
    /\ manifest \in Manifests
    /\ cache \in [Paths -> GenFileVals]
    /\ dirs = DirsOf(cache)
    /\ remote = [p \in Paths |-> Tif("origin", 1)]
    /\ hist = <<>>
    /\ gen = NoGen
    /\ lenOut = -1
    /\ procs = NoProcs

\* len(generator)
LenCall ==
    /\ lenOut' = ManifestLen(manifest)
    /\ UNCHANGED <<cache, dirs, remote, hist, manifest, gen, procs>>

\* The consumer iterates one generator at a time: it asks for a new one
\* before any, or once the one it had has ended or raised.
NoneRunning == gen.status # "suspended"

\* generator(shuffle=..., stream=..., stream_cache=...): a
\* fresh generator object. Its body reads and shuffles the manifest at the
\* first next(); the manifest does not change, so the rows are fixed here.
Call ==
    /\ NoneRunning
    /\ \E shuffle \in BOOLEAN, stream \in BOOLEAN, stream_cache \in BOOLEAN :
        \E rows \in (IF shuffle THEN Shuffles(CsvReader(manifest))
                                 ELSE {CsvReader(manifest)}) :
            /\ gen' = [kind |-> "__call__", rows |-> rows, lines |-> <<>>,
                       idx |-> 1, out |-> <<>>,
                       status |-> "suspended", shuffle |-> shuffle,
                       stream |-> stream, stream_cache |-> stream_cache,
                       no_cache |-> FALSE]
            /\ UNCHANGED <<cache, dirs, remote, hist, manifest, lenOut, procs>>

\* next() on the generator of __call__
NextCall ==
    /\ gen.kind = "__call__"
    /\ gen.status = "suspended"
    /\ \E net1 \in BOOLEAN, net2 \in BOOLEAN :
        LET st == CallStep(gen, cache, dirs, remote, net1, net2)
        IN  /\ gen' = st.gen
            /\ cache' = st.cache
            /\ dirs' = st.dirs
    /\ UNCHANGED <<remote, hist, manifest, lenOut, procs>>

\* builder._generate_examples(csv_file=...), with the builder's config.no_cache
GenerateExamples ==
    /\ NoneRunning
    /\ \E no_cache \in BOOLEAN :
        /\ gen' = [kind |-> "_generate_examples", rows |-> <<>>,
                   lines |-> manifest, idx |-> 1, out |-> <<>>, status |-> "suspended", shuffle |-> FALSE,
                   stream |-> FALSE, stream_cache |-> FALSE,
                   no_cache |-> no_cache]
        /\ UNCHANGED <<cache, dirs, remote, hist, manifest, lenOut, procs>>

\* next() on the generator of _generate_examples
NextExample ==
    /\ gen.kind = "_generate_examples"
    /\ gen.status = "suspended"
    /\ \E net1 \in BOOLEAN, net2 \in BOOLEAN :
        LET st == GenerateExamplesStep(gen, cache, dirs, remote, net1, net2)
        IN  /\ gen' = st.gen
            /\ cache' = st.cache
            /\ dirs' = st.dirs
    /\ UNCHANGED <<remote, hist, manifest, lenOut, procs>>

GenNext == LenCall \/ Call \/ NextCall \/ GenerateExamples \/ NextExample

SpecGen == GenInit /\ [][GenNext]_vars

GenTypeOK ==
    /\ cache \in [Paths -> GenFileVals \cup {Encode(1)}]
    /\ DirsOf(cache) \subseteq dirs
    /\ gen.idx \in 1..(Len(gen.rows) + Len(gen.lines) + 1)
    /\ Len(gen.out) < gen.idx

\* ------------------------------------------------- claims on the generators
FormatErrors == {"IndexError", "ValueError"}
ResolveErrors == {"NotAccessible", "RemoteFetchError", "DecodeError"}

\* The number of rows the generator g iterates, and the fields of row i as
\* it reads them.
NumRows(g) == IF g.kind = "__call__" THEN Len(g.rows) ELSE Len(g.lines)
RowFields(g, i) ==
    IF g.kind = "__call__" THEN g.rows[i] ELSE Split(Strip(g.lines[i]))

\* Example e resolved the image and the mask named by the fields of one row.
FromRow(e, fields) ==
    /\ Len(fields) >= 2
    /\ e.image_ref = LocalPath(S1, fields[1])
    /\ e.mask_ref = LocalPath(LABELS, fields[2])

\* Every line of the manifest has exactly two comma-separated fields.
ValidManifest ==
    \A i \in 1..Len(manifest) : ~Malformed(Split(Strip(manifest[i])))

\* The (image, mask) files the manifest's lines name.
Referenced ==
    UNION {LET f == Split(Strip(manifest[i]))
           IN  {LocalPath(S1, f[1]), LocalPath(LABELS, f[2])} :
           i \in 1..Len(manifest)}

\* C4: for a valid manifest of N lines, len() returns N and touches no file,
\* directory or generator; a generator of either variant never raises a
\* format error, has N rows, ends only after yielding exactly N examples,
\* the i-th from the i-th row it read, and (unless no_cache bypasses the
\* cache) raises a resolution error only while some referenced file is not
\* in the cache.
C4_Counts ==
    ValidManifest =>
        /\ lenOut # -1 => lenOut = Len(manifest)
        /\ gen.kind # "none" =>
            /\ gen.status \notin FormatErrors
            /\ NumRows(gen) = Len(manifest)
            /\ gen.status = "done" =>
                /\ Len(gen.out) = Len(manifest)
                /\ \A i \in 1..Len(gen.out) : FromRow(gen.out[i], RowFields(gen, i))
            /\ (gen.status \in ResolveErrors /\ ~gen.no_cache) =>
                \E p \in Referenced : ~IsFile(cache, p)

C4_LenStep ==
    lenOut' # lenOut => (cache' = cache /\ dirs' = dirs /\ gen' = gen)

\* C4: len() is the manifest's row count and resolves nothing, and a
\* generator over a valid manifest of N rows ends after exactly N examples.
C4_LenAndCount == []C4_Counts /\ [][C4_LenStep]_vars

C4_Witness ==
    /\ ValidManifest
    /\ Len(manifest) = 2
    /\ manifest[1] # manifest[2]
    /\ lenOut = 2
    /\ gen.kind = "__call__" /\ gen.stream
    /\ gen.status = "done"
    /\ Len(gen.out) = 2

\* C5 as stated: in either variant, iteration never gets past a row whose
\* field count is not two (it raises there), and no example is yielded for
\* that row nor for any later row.
C5_AsStated ==
    gen.kind # "none" =>
        \A i \in 1..NumRows(gen) :
            Malformed(RowFields(gen, i)) =>
                /\ Len(gen.out) < i
                /\ gen.idx <= i

\* C6: every row the generator has passed yielded its example, in order (no
\* row is skipped); a generator that raised a resolution error at row k has
\* yielded exactly the k-1 earlier examples and never yields again; and a
\* row whose file is neither local nor fetchable raises at that row.
C6_NoSkip ==
    gen.kind # "none" =>
        /\ Len(gen.out) = gen.idx - 1
        /\ \A i \in 1..Len(gen.out) : FromRow(gen.out[i], RowFields(gen, i))

C6_Ended ==
    gen.status \in ResolveErrors =>
        \/ gen' = gen
        \/ gen'.status = "suspended" /\ gen'.out = <<>> /\ gen'.idx = 1

C6_Raises ==
    (/\ gen.kind = "__call__" /\ gen.status = "suspended" /\ ~gen.stream
     /\ gen.idx <= Len(gen.rows)
     /\ Len(gen.rows[gen.idx]) >= 2
     /\ \/ ~IsFile(cache, LocalPath(S1, gen.rows[gen.idx][1]))
        \/ ~IsFile(cache, LocalPath(LABELS, gen.rows[gen.idx][2]))
     /\ gen' # gen)
    => gen' = [gen EXCEPT !.status = "NotAccessible"]

\* C6: a failed resolution at row k ends the sequence there with exactly the
\* k-1 earlier examples yielded, and no row is ever skipped.
C6_FailFast == []C6_NoSkip /\ [][C6_Ended]_vars /\ [][C6_Raises]_vars

C6_Witness ==
    /\ gen.kind = "_generate_examples"
    /\ gen.status = "RemoteFetchError"
    /\ gen.idx = 2
    /\ Len(gen.out) = 1
    /\ NumRows(gen) = 2

SeqBag(seq) ==
    [x \in {seq[i] : i \in 1..Len(seq)} |->
        Cardinality({i \in 1..Len(seq) : seq[i] = x})]

\* The (image_ref, mask_ref) pair a row names / an example resolved.
RowPair(fields) == <<LocalPath(S1, fields[1]), LocalPath(LABELS, fields[2])>>
ExamplePair(e) == <<e.image_ref, e.mask_ref>>

\* C7: the rows a __call__ generator iterates, shuffled or not, are the
\* manifest's rows as a multiset; every example pairs the image and the mask
\* of one row; and a generator that ended resolved exactly the multiset of
\* pairs of the unshuffled manifest.
C7_ShufflePermutes ==
    gen.kind = "__call__" =>
        /\ SeqBag(gen.rows) = SeqBag(CsvReader(manifest))
        /\ \A i \in 1..Len(gen.out) : ExamplePair(gen.out[i]) = RowPair(gen.rows[i])
        /\ gen.status = "done" =>
            SeqBag([i \in 1..Len(gen.out) |-> ExamplePair(gen.out[i])])
              = SeqBag([i \in 1..Len(manifest) |-> RowPair(CsvReader(manifest)[i])])

C7_Witness ==
    /\ gen.kind = "__call__" /\ gen.shuffle
    /\ gen.rows # CsvReader(manifest)
    /\ gen.status = "done"
    /\ Len(gen.out) = 2
    /\ ExamplePair(gen.out[1]) # ExamplePair(gen.out[2])

\* -------------------------------------- two workers over one cache directory
\* The file both workers resolve, with caching enabled (stream = True and
\* stream_cache = True in _load_image; no_cache = False in load_input).
ConcDir == S1
ConcPath == LocalPath(ConcDir, NameA)

ConcInit ==
    /\ cache = [p \in Paths |-> Absent]
    /\ dirs = {}
    /\ remote \in {r \in [Paths -> RemoteVals] :
                     \A p \in Paths \ {ConcPath} : r[p] = Absent}
    /\ hist = <<>>
    /\ manifest = <<>>
    /\ gen = NoGen
    /\ lenOut = -1
    /\ procs = NoProcs

ConcFrame == UNCHANGED <<remote, hist, manifest, gen, lenOut>>

\* A worker enters one of the two resolvers.
Begin(w) ==
    /\ procs[w].pc = "idle"
    /\ \E op \in {"_load_image", "load_input"} :
        procs' = [procs EXCEPT ![w] = Proc(op, "check", Absent, "none")]
    /\ UNCHANGED <<cache, dirs>>
    /\ ConcFrame

\* local_path.is_file() / os.path.isfile(local_path)
Check(w) ==
    /\ procs[w].pc = "check"
    /\ procs' = [procs EXCEPT ![w].pc =
                    IF IsFile(cache, ConcPath) THEN "read_local" ELSE "fetch"]
    /\ UNCHANGED <<cache, dirs>>
    /\ ConcFrame

\* read_bytes and the decoding of what it returned (load_input makes the
\* directory first).
Fetch(w) ==
    /\ procs[w].pc = "fetch"
    /\ dirs' = IF procs[w].op = "load_input" THEN dirs \cup {ConcDir} ELSE dirs
    /\ \E net \in BOOLEAN :
        procs' = [procs EXCEPT ![w] =
                    IF ~net \/ remote[ConcPath] = Absent
                    THEN Proc(procs[w].op, "done", Absent, "RemoteFetchError")
                    ELSE IF ~Decode(remote[ConcPath]).ok
                    THEN Proc(procs[w].op, "done", Absent, "DecodeError")
                    ELSE Proc(procs[w].op, "open_write", remote[ConcPath], "none")]
    /\ UNCHANGED cache
    /\ ConcFrame

\* mkdir, then the file is opened for writing.
Open(w) ==
    /\ procs[w].pc = "open_write"
    /\ dirs' = dirs \cup {ConcDir}
    /\ cache' = OpenForWrite(cache, ConcPath)
    /\ procs' = [procs EXCEPT ![w].pc = "writing"]
    /\ ConcFrame

\* The content is written and the file closed: the raw bytes (_load_image)
\* or the re-encoded array (load_input). While another worker still writes
\* the same file its content stays incomplete.
Close(w) ==
    /\ procs[w].pc = "writing"
    /\ LET content == IF procs[w].op = "load_input"
                      THEN Encode(Decode(procs[w].buf).img)
                      ELSE procs[w].buf
           others == \E v \in Procs \ {w} : procs[v].pc = "writing"
       IN  cache' = [cache EXCEPT ![ConcPath] = IF others THEN Partial ELSE content]
    /\ procs' = [procs EXCEPT ![w].pc = "done", ![w].result = "ok"]
    /\ UNCHANGED dirs
    /\ ConcFrame

\* rasterio.open(local_path).read() of whatever is at the path by now.
ReadLocal(w) ==
    /\ procs[w].pc = "read_local"
    /\ procs' = [procs EXCEPT
                    ![w].pc = "done",
                    ![w].result = IF cache[ConcPath] = Partial THEN "PartialRead"
                                  ELSE IF Decode(cache[ConcPath]).ok THEN "ok"
                                  ELSE "DecodeError"]
    /\ UNCHANGED <<cache, dirs>>
    /\ ConcFrame

ConcNext ==
    \E w \in Procs :
        Begin(w) \/ Check(w) \/ Fetch(w) \/ Open(w) \/ Close(w) \/ ReadLocal(w)

SpecConc == ConcInit /\ [][ConcNext]_vars

\* C10: nothing keeps a file being written out of sight: while a worker
\* writes the cache file it exists, incomplete, at the cache path; another
\* worker's existence check made then succeeds and sends it to read the
\* local file; and a read made while the write is still in progress reads
\* the incomplete file.
C10_Visible ==
    \A w \in Procs : procs[w].pc = "writing" => cache[ConcPath] = Partial

C10_CheckStep ==
    \A w \in Procs :
        (procs[w].pc = "check" /\ cache[ConcPath] = Partial /\ procs'[w] # procs[w])
        => procs'[w].pc = "read_local"

C10_ReadStep ==
    \A w \in Procs :
        (procs[w].pc = "read_local" /\ cache[ConcPath] = Partial
         /\ procs'[w] # procs[w])
        => procs'[w].result = "PartialRead"

\* C10: a worker's existence check succeeds on a file another worker is
\* still writing, and its read then sees the incomplete file.
C10_ReadWhileWrite ==
    []C10_Visible /\ [][C10_CheckStep]_vars /\ [][C10_ReadStep]_vars

C10_Witness ==
    \E w \in Procs, v \in Procs :
        /\ w # v
        /\ procs[w].pc = "writing"
        /\ procs[v].pc = "done" /\ procs[v].result = "PartialRead"
        /\ cache[ConcPath] = Partial

====
